---- MODULE Spec2Model ----
(***************************************************************************)
(* The dual-source audio recorder of tauri-playground: the controller      *)
(* (start_recording, stop_recording, toggle_recording), the two capture    *)
(* callbacks, the nearest-neighbour rate converter of the microphone path  *)
(* and Mixer::mix_available, with the WAV writer at its boundary.          *)
(*                                                                         *)
(* Samples are fixed-point integers: One stands for the float 1.0, and     *)
(* every sample value is a multiple of One, so that (s + m) / 2.0 is an    *)
(* exact integer, as it is an exact f32 for these values.                  *)
(***************************************************************************)
EXTENDS Integers, Sequences, FiniteSets, TLC

\* ------------------------------------------------------------------ bounds
MaxSessions == 2        \* writers created by start_recording in one run
MaxEvents == 3          \* callbacks delivered, errors injected, toggles invoked and ticks in one run

One == 2                \* the fixed-point image of the sample value 1.0
Samples == {-One, One}
TargetRate == 48000
PeriodMs == 50          \* the least time between two audio-levels emissions
TickMs == PeriodMs       \* one tick of the clock
\* The input device of the run: mono that has to be decimated, or stereo at
\* the target rate.
MicConfigs == {[channels |-> 1, source_sr |-> 96000],
               [channels |-> 2, source_sr |-> 48000]}
NoPath == 0
Paths == {1, 2}
NoSession == 0
Tasks == {"t1", "t2"}   \* concurrent toggle_recording invocations
Direct == "cmd"         \* a command invoked directly by the host shell
SysSizes == {1, 2, 4}   \* samples in one system callback
MicSizes == {1, 2}      \* frames in one microphone callback
Sessions == 1..MaxSessions

VARIABLES
    recorder,       \* SharedRecorder: system_stream, mic_stream, file_path, writer
    system_buffer,  \* VecDeque<f32> shared by every session
    mic_buffer,     \* VecDeque<f32> shared by every session
    system_level,   \* last RMS stored by a system callback
    mic_level,      \* last RMS stored by a microphone callback
    writers,        \* per writer created: the Option<WavWriter> inside its Arc<Mutex<..>>
    files,          \* path -> the writer whose File::create last (re)created the file
    sess,           \* per Start attempt that created a writer: where it stands
    conv,           \* per session: the rate converter state captured by the mic closure
    sysCb,          \* per session: the system callback thread
    micCb,          \* per session: the microphone callback thread
    starting,       \* the start_recording call that holds the controller lock
    toggle,         \* per task: where its toggle_recording stands
    ret,            \* what the last start_recording / stop_recording returned
    mic_config,     \* the input device's configuration: channels and sample rate
    now,            \* the monotonic clock, in ticks of TickMs
    last_levels_update, \* the Instant of the last audio-levels emission
    audio_levels,   \* the last audio-levels event emitted
    events,         \* callbacks delivered, errors injected, toggles invoked and ticks so far
    holder,         \* per mutex: the thread whose guard is alive
    thread,         \* per thread: the lock and unlock operations it has yet to do
    overlay,        \* pop-up-window: the last recording-status emitted, the overlay shown
    system_recorder, \* system-audio-recorder: its Recorder, writers and callbacks
    mic_recorder    \* mic-recorder: its AppState, streams and writers

state == <<recorder, system_buffer, mic_buffer, system_level, mic_level, writers,
          files, sess, conv, sysCb, micCb, starting, toggle, ret, mic_config, now,
          last_levels_update, audio_levels, events, overlay, system_recorder,
          mic_recorder>>

vars == <<state, holder, thread,
                   overlay, system_recorder, mic_recorder>>

\* pop-up-window: update_overlay emits recording-status and shows or hides the
\* overlay window accordingly.
update_overlay(is_recording) == overlay' = is_recording

\* ------------------------------------------------------------ the WAV writer
NoWriter == [st |-> "none", path |-> NoPath, data |-> <<>>, declared |-> -1, fin |-> 0]

\* WavWriter::create: File::create truncates the file and a placeholder header
\* is written; the declared length is only right after finalize.
WavCreate(p) == [st |-> "open", path |-> p, data |-> <<>>, declared |-> -1, fin |-> 0]

\* write_sample: on an I/O error the sample is neither stored nor counted.
WriteSample(w, x, ok) == IF ok THEN [w EXCEPT !.data = Append(@, x)] ELSE w

\* finalize: rewrites the header with the number of samples written. It
\* reports an error on an I/O failure and when the last frame is unfinished.
FinalizeOk(w, ok) == ok /\ Len(w.data) % 2 = 0

\* A finalize that counts frames where the header wants samples.
FinalizeCountingFrames(w, ok) ==
    [w EXCEPT !.st = "finalized", !.fin = @ + 1,
              !.declared = IF FinalizeOk(w, ok) THEN Len(w.data) \div 2 ELSE -1]

Finalize(w, ok) ==
    [w EXCEPT !.st = "finalized", !.fin = @ + 1,
              !.declared = IF FinalizeOk(w, ok) THEN Len(w.data) ELSE -1]

\* Drop of a writer that was never finalized (a failed Start): the header is
\* updated, errors are ignored.
DropWriter(w) ==
    IF w.st = "open" THEN [w EXCEPT !.st = "dropped", !.declared = Len(w.data)] ELSE w

\* ------------------------------------------------------------------- levels
RECURSIVE ISqrtFrom(_, _)
ISqrtFrom(n, r) == IF (r + 1) * (r + 1) > n THEN r ELSE ISqrtFrom(n, r + 1)
ISqrt(n) == ISqrtFrom(n, 0)

RECURSIVE SumSq(_)
SumSq(s) == IF s = <<>> THEN 0 ELSE Head(s).v * Head(s).v + SumSq(Tail(s))

\* sqrt(sum / count), in fixed point
Rms(sum, count) == ISqrt(sum \div count)

\* ---------------------------------------------------------------- the mixer
MixSample(s, m) == (s + m) \div 2

\* One mixed sample, with the two buffer entries it was made of.
Mixed(s, m) == [v |-> MixSample(s.v, m.v), s |-> s, m |-> m]

\* An if in the place of the while: one pair at most per call.
MixLoopOnce(sys, mic, w, oks, n) ==
    IF Len(sys) >= 2 /\ Len(mic) >= 2
    THEN LET mixed_1 == Mixed(sys[1], mic[1])
             mixed_2 == Mixed(sys[2], mic[2])
             w1 == WriteSample(w, mixed_1, oks[1])
             w2 == WriteSample(w1, mixed_2, oks[2])
         IN  [sys |-> Tail(Tail(sys)), mic |-> Tail(Tail(mic)), w |-> w2,
              mixed_count |-> n + 1,
              mixed_sum |-> (mixed_1.v * mixed_1.v + mixed_2.v * mixed_2.v) \div 2]
    ELSE [sys |-> sys, mic |-> mic, w |-> w, mixed_count |-> n, mixed_sum |-> 0]

\* The while loop of mix_available: oks[i] tells whether the i-th write_sample
\* call of this drain succeeds.
RECURSIVE MixLoop(_, _, _, _, _)
MixLoop(sys, mic, w, oks, n) ==
    IF Len(sys) >= 2 /\ Len(mic) >= 2
    THEN LET mixed_1 == Mixed(sys[1], mic[1])
             mixed_2 == Mixed(sys[2], mic[2])
             w1 == WriteSample(w, mixed_1, oks[1])
             w2 == WriteSample(w1, mixed_2, oks[2])
             r == MixLoop(Tail(Tail(sys)), Tail(Tail(mic)), w2, Tail(Tail(oks)), n + 1)
         IN  [r EXCEPT !.mixed_sum = @ + (mixed_1.v * mixed_1.v + mixed_2.v * mixed_2.v) \div 2]
    ELSE [sys |-> sys, mic |-> mic, w |-> w, mixed_count |-> n, mixed_sum |-> 0]

Pairable(sys, mic) ==
    LET a == Len(sys) \div 2  b == Len(mic) \div 2 IN IF a < b THEN a ELSE b

\* The outcomes of the 2 * k write_sample calls of one drain.
Outcomes(k, budget) ==
    {o \in [1..(2 * k) -> BOOLEAN] : Cardinality({i \in 1..(2 * k) : ~o[i]}) <= budget}

OkSeq(o, k) == [i \in 1..(2 * k) |-> o[i]]

\* The last audio-levels event: the instant it was emitted at, its payload,
\* and how many events the application has emitted up to it.
NoLevels == [at |-> -1, mic_level |-> 0, system_level |-> 0, mixed_level |-> 0,
             count |-> 0]

\* The time since the application was launched, whatever was emitted since.
ElapsedSinceLaunch(since) == now * TickMs

Elapsed(since) == (now - since) * TickMs

\* A drain that emits and leaves the timestamp of the last emission as it was.
DrainKeepingTimer(w) ==
    \E o \in Outcomes(Pairable(system_buffer, mic_buffer), MaxEvents - events) :
       LET k == Pairable(system_buffer, mic_buffer)
           r == MixLoop(system_buffer, mic_buffer, writers[w], OkSeq(o, k), 0)
           emits == r.mixed_count > 0 /\ Elapsed(last_levels_update) >= PeriodMs
       IN  /\ system_buffer' = r.sys
           /\ mic_buffer' = r.mic
           /\ writers' = [writers EXCEPT ![w] = r.w]
           /\ events' = events + Cardinality({i \in 1..(2 * k) : ~o[i]})
           /\ audio_levels' =
                 IF emits
                 THEN [at |-> now, mic_level |-> mic_level, system_level |-> system_level,
                       mixed_level |-> Rms(r.mixed_sum, r.mixed_count),
                       count |-> audio_levels.count + 1]
                 ELSE audio_levels
           /\ last_levels_update' = last_levels_update

\* The body of mix_available once it has found the writer: the loop, then the
\* emission of the levels, at most every PeriodMs.
Drain(w) ==
    \E o \in Outcomes(Pairable(system_buffer, mic_buffer), MaxEvents - events) :
       LET k == Pairable(system_buffer, mic_buffer)
           r == MixLoop(system_buffer, mic_buffer, writers[w], OkSeq(o, k), 0)
           emits == r.mixed_count > 0 /\ Elapsed(last_levels_update) >= PeriodMs
       IN  /\ system_buffer' = r.sys
           /\ mic_buffer' = r.mic
           /\ writers' = [writers EXCEPT ![w] = r.w]
           /\ events' = events + Cardinality({i \in 1..(2 * k) : ~o[i]})
           /\ audio_levels' =
                 IF emits
                 THEN [at |-> now, mic_level |-> mic_level, system_level |-> system_level,
                       mixed_level |-> Rms(r.mixed_sum, r.mixed_count),
                       count |-> audio_levels.count + 1]
                 ELSE audio_levels
           /\ last_levels_update' = IF emits THEN now ELSE last_levels_update

\* A drain that does not look whether the writer is still there.
MixAvailableAnyWriter(w) == Drain(w)

\* mix_available of the Mixer of session w.
MixAvailable(w) ==
    IF writers[w].st = "open"
    THEN Drain(w)
    ELSE UNCHANGED <<system_buffer, mic_buffer, writers, events, last_levels_update,
                     audio_levels>>

\* ------------------------------------------------------- the rate converter
\* The loop with the two rates exchanged in its condition.
RECURSIVE EmitCountSwapped(_, _, _)
EmitCountSwapped(total_in, total_out, source_sr) ==
    IF total_out * TargetRate < total_in * source_sr
    THEN 1 + EmitCountSwapped(total_in, total_out + 1, source_sr)
    ELSE 0

\* The loop with <= for <.
RECURSIVE EmitCountInclusive(_, _, _)
EmitCountInclusive(total_in, total_out, source_sr) ==
    IF total_out * source_sr <= total_in * TargetRate
    THEN 1 + EmitCountInclusive(total_in, total_out + 1, source_sr)
    ELSE 0

\* An if for the while: at most one emission for a source frame.
EmitCountIf(total_in, total_out, source_sr) ==
    IF total_out * source_sr < total_in * TargetRate THEN 1 ELSE 0

\* How often the while loop of the mic callback runs for one source frame.
RECURSIVE EmitCount(_, _, _)
EmitCount(total_in, total_out, source_sr) ==
    IF total_out * source_sr < total_in * TargetRate
    THEN 1 + EmitCount(total_in, total_out + 1, source_sr)
    ELSE 0

\* A 1-channel frame pushed once, not duplicated.
FramePairMonoOnce(frame, channels) ==
    IF channels = 1 THEN <<frame[1]>> ELSE <<frame[1], frame[2]>>

\* The two samples one emission pushes.
FramePair(frame, channels) ==
    IF channels = 1 THEN <<frame[1], frame[1]>> ELSE <<frame[1], frame[2]>>

\* What one emission adds to level_sum.
FrameLevel(frame, channels) ==
    IF channels = 1 THEN frame[1] * frame[1]
    ELSE (frame[1] * frame[1] + frame[2] * frame[2]) \div 2

RECURSIVE Repeat(_, _)
Repeat(s, k) == IF k = 0 THEN <<>> ELSE s \o Repeat(s, k - 1)

\* for frame in data.chunks(mic_channels): c is the converter state plus what
\* this callback has pushed and summed so far.
RECURSIVE ResampleData(_, _)
ResampleData(c, data) ==
    IF data = <<>> THEN c
    ELSE LET tin == c.total_in + 1
             k == EmitCount(tin, c.total_out, c.source_sr)
         IN  ResampleData(
                 [c EXCEPT !.total_in = tin,
                           !.total_out = @ + k,
                           !.out = @ \o Repeat(FramePair(Head(data), c.channels), k),
                           !.level_sum = @ + k * FrameLevel(Head(data), c.channels),
                           !.level_count = @ + k],
                 Tail(data))

\* ------------------------------------------------------------------- inputs
\* A system batch: n interleaved samples of one value.
SysBatches == {[i \in 1..n |-> x] : n \in SysSizes, x \in Samples}

\* A microphone batch: n frames of the stream's channel count, each One on
\* its odd channels and -One on its even ones.
MicFrame(channels) == [c \in 1..channels |-> IF c % 2 = 1 THEN One ELSE -One]
MicBatches(channels) == {[i \in 1..n |-> MicFrame(channels)] : n \in MicSizes}

\* Buffer entries carry, beside the value v, the session whose callback pushed
\* them and their index among that session's pushes to that buffer.
Tag(vals, w, base) == [i \in 1..Len(vals) |-> [v |-> vals[i], w |-> w, i |-> base + i]]

\* ------------------------------------------------------------------- locks
\* The parking_lot mutexes: the controller's, and those shared with the callbacks.
Mutexes == {"recorder", "system_buffer", "mic_buffer", "writer",
            "last_levels_update", "mic_level", "system_level"}

\* The threads that take them: the capture threads and the command handlers.
Threads == {"system", "mic", "start", "stop"}
Free == "free"

\* ---------------------------------------------------------- other recorders
\* system-audio-recorder: Recorder { stream, file_path, writer } is all None;
\* no writer was created, no callback runs, nothing was returned.
NoSystemRecorder ==
    [stream |-> NoSession, file_path |-> NoPath, writer |-> NoSession,
     writers |-> [w \in Sessions |-> NoWriter],
     sess |-> [w \in Sessions |-> "none"],
     cb |-> [w \in Sessions |-> "idle"],
     ret |-> [op |-> "none", val |-> "none"],
     events |-> 0]

\* mic-recorder: AppState { stream, recording_path } is all None; no stream
\* was built and no writer created.
NoMicRecorder ==
    [stream |-> NoSession, recording_path |-> NoPath,
     writers |-> [w \in Sessions |-> NoWriter],
     streams |-> [w \in Sessions |-> "none"],
     building |-> NoSession,
     ret |-> [op |-> "none", val |-> "none"],
     events |-> 0]

\* ------------------------------------------------------------------- state
NoStart == [by |-> Direct, w |-> NoSession, path |-> NoPath]
NoRet == [op |-> "none", val |-> "none", path |-> NoPath]
IdleCb == [pc |-> "idle", pushed |-> 0]
NoConv == [channels |-> 1, source_sr |-> TargetRate, total_in |-> 0, total_out |-> 0]

Init ==
    /\ recorder = [system_stream |-> NoSession, mic_stream |-> NoSession,
                   file_path |-> NoPath, writer |-> NoSession]
    /\ system_buffer = <<>>
    /\ mic_buffer = <<>>
    /\ system_level = 0
    /\ mic_level = 0
    /\ writers = [w \in Sessions |-> NoWriter]
    /\ files = [p \in Paths |-> NoSession]
    /\ sess = [w \in Sessions |-> "none"]
    /\ conv = [w \in Sessions |-> NoConv]
    /\ sysCb = [w \in Sessions |-> IdleCb]
    /\ micCb = [w \in Sessions |-> IdleCb]
    /\ starting = NoStart
    /\ toggle = [t \in Tasks |-> "idle"]
    /\ ret = NoRet
    /\ events = 0
    /\ now = 0
    /\ holder = [m \in Mutexes |-> Free]
    /\ thread = [t \in Threads |-> <<>>]
    /\ overlay = FALSE
    /\ system_recorder = NoSystemRecorder
    /\ mic_recorder = NoMicRecorder
    /\ last_levels_update = 0
    /\ audio_levels = NoLevels
    /\ mic_config \in MicConfigs

\* AppState::is_recording, and the check start_recording makes
IsRecording == recorder.system_stream # NoSession \/ recorder.mic_stream # NoSession

LockFree == starting = NoStart

\* A toggle that runs a command whatever it has read.
CallersAnyDecision(op) == {Direct} \cup {t \in Tasks : toggle[t] # "idle"}

\* Who may run a command now: the host shell, or a toggle that has decided.
Callers(op) == {Direct} \cup {t \in Tasks : toggle[t] = op}

\* toggle_recording returns when the command it called returns.
ToggleReturns(by) ==
    IF by = Direct THEN toggle ELSE [toggle EXCEPT ![by] = "idle"]

\* ------------------------------------------------------------ system callback
\* did_output_sample_buffer is invoked with a non-empty batch of samples.
SysBegin(w) ==
    /\ sess[w] \in {"starting", "live"}
    /\ sysCb[w].pc = "idle"
    /\ events < MaxEvents
    /\ events' = events + 1
    /\ sysCb' = [sysCb EXCEPT ![w] = [@ EXCEPT !.pc = "push"]]
    /\ UNCHANGED <<recorder, system_buffer, mic_buffer, system_level, mic_level, writers,
                   files, sess, conv, micCb, starting, toggle, ret, mic_config,
                   now, last_levels_update, audio_levels, holder, thread,
                   overlay, system_recorder, mic_recorder>>

\* It stores the batch's RMS and extends the system buffer.
SysPush(w, batch) ==
    /\ sysCb[w].pc = "push"
    /\ LET items == Tag(batch, w, sysCb[w].pushed)
       IN  /\ system_level' = Rms(SumSq(items), Len(items))
           /\ system_buffer' = system_buffer \o items
           /\ sysCb' = [sysCb EXCEPT ![w] = [@ EXCEPT !.pc = "mix",
                                                     !.pushed = @ + Len(items)]]
    /\ UNCHANGED <<recorder, mic_buffer, mic_level, writers, files, sess, conv, micCb,
                   starting, toggle, ret, mic_config,
                   now, last_levels_update, audio_levels, events, holder, thread,
                   overlay, system_recorder, mic_recorder>>

\* It ends with mixer_trigger.mix_available().
SysMix(w) ==
    /\ sysCb[w].pc = "mix"
    /\ MixAvailable(w)
    /\ sysCb' = [sysCb EXCEPT ![w] = [@ EXCEPT !.pc = "idle"]]
    /\ UNCHANGED <<recorder, system_level, mic_level, files, sess, conv, micCb,
                   starting, toggle, ret, mic_config,
                   now, holder, thread,
                   overlay, system_recorder, mic_recorder>>

\* -------------------------------------------------------- microphone callback
MicBegin(w) ==
    /\ sess[w] = "live"
    /\ micCb[w].pc = "idle"
    /\ events < MaxEvents
    /\ events' = events + 1
    /\ micCb' = [micCb EXCEPT ![w] = [@ EXCEPT !.pc = "push"]]
    /\ UNCHANGED <<recorder, system_buffer, mic_buffer, system_level, mic_level, writers,
                   files, sess, conv, sysCb, starting, toggle, ret, mic_config,
                   now, last_levels_update, audio_levels, holder, thread,
                   overlay, system_recorder, mic_recorder>>

\* Under the mic buffer's lock: resample, push, store the level.
MicPush(w, data) ==
    /\ micCb[w].pc = "push"
    /\ LET c0 == [channels |-> conv[w].channels, source_sr |-> conv[w].source_sr,
                  total_in |-> conv[w].total_in, total_out |-> conv[w].total_out,
                  out |-> <<>>, level_sum |-> 0, level_count |-> 0]
           c == ResampleData(c0, data)
           items == Tag(c.out, w, micCb[w].pushed)
       IN  /\ mic_buffer' = mic_buffer \o items
           /\ conv' = [conv EXCEPT ![w] = [@ EXCEPT !.total_in = c.total_in,
                                                   !.total_out = c.total_out]]
           /\ mic_level' = IF c.level_count > 0 THEN Rms(c.level_sum, c.level_count)
                           ELSE mic_level
           /\ micCb' = [micCb EXCEPT ![w] = [@ EXCEPT !.pc = "mix",
                                                     !.pushed = @ + Len(items)]]
    /\ UNCHANGED <<recorder, system_buffer, system_level, writers, files, sess, sysCb,
                   starting, toggle, ret, mic_config,
                   now, last_levels_update, audio_levels, events, holder, thread,
                   overlay, system_recorder, mic_recorder>>

MicMix(w) ==
    /\ micCb[w].pc = "mix"
    /\ MixAvailable(w)
    /\ micCb' = [micCb EXCEPT ![w] = [@ EXCEPT !.pc = "idle"]]
    /\ UNCHANGED <<recorder, system_level, mic_level, files, sess, conv, sysCb,
                   starting, toggle, ret, mic_config,
                   now, holder, thread,
                   overlay, system_recorder, mic_recorder>>

\* ------------------------------------------------------------ start_recording
Result(op, val, path) == [op |-> op, val |-> val, path |-> path]

\* The sessions whose writer has not been created yet; Start takes the first.
Unused == {w \in Sessions : sess[w] = "none"}
NextSession == CHOOSE w \in Unused : \A x \in Unused : w <= x

\* The file name: a fixed name, or one made of the current second, which never
\* goes back: the name of the last file created, or the next one.
LastPath ==
    IF \A w \in Sessions : writers[w].st = "none" THEN NoPath
    ELSE CHOOSE p \in Paths : /\ \E w \in Sessions : writers[w].path = p
                              /\ \A w \in Sessions : writers[w].path <= p
PathsNow == {p \in Paths : p \in {LastPath, LastPath + 1}}

\* A rejection that takes the streams out of the recorder to look at them,
\* where the code only asks is_some().
StartRejectedTaking(by) ==
    /\ IsRecording
    /\ recorder' = [recorder EXCEPT !.system_stream = NoSession, !.mic_stream = NoSession]
    /\ ret' = Result("start", "AlreadyRecording", NoPath)
    /\ toggle' = ToggleReturns(by)
    /\ UNCHANGED <<system_buffer, mic_buffer, system_level, mic_level, writers,
                   files, sess, conv, sysCb, micCb, starting, mic_config,
                   now, last_levels_update, audio_levels, events, holder, thread,
                   overlay, system_recorder, mic_recorder>>

\* The AlreadyRecording check, made with the controller's lock held.
StartRejected(by) ==
    /\ IsRecording
    /\ ret' = Result("start", "AlreadyRecording", NoPath)
    /\ toggle' = ToggleReturns(by)
    /\ UNCHANGED <<recorder, system_buffer, mic_buffer, system_level, mic_level, writers,
                   files, sess, conv, sysCb, micCb, starting, mic_config,
                   now, last_levels_update, audio_levels, events, holder, thread,
                   overlay, system_recorder, mic_recorder>>

\* create_dir_all or WavWriter::create fails: nothing was created.
StartFailsEarly(by) ==
    /\ ~IsRecording
    /\ events < MaxEvents
    /\ events' = events + 1
    /\ ret' = Result("start", "IoError", NoPath)
    /\ toggle' = ToggleReturns(by)
    /\ UNCHANGED <<recorder, system_buffer, mic_buffer, system_level, mic_level, writers,
                   files, sess, conv, sysCb, micCb, starting, mic_config,
                   now, last_levels_update, audio_levels, holder, thread,
                   overlay, system_recorder, mic_recorder>>

\* The writer is created, then the shareable content, the display or
\* start_capture fails: the writer is dropped with the Mixer.
StartFailsSystem(by) ==
    /\ ~IsRecording
    /\ events < MaxEvents
    /\ events' = events + 1
    /\ Unused # {}
    /\ \E p \in PathsNow :
         /\ writers' = [writers EXCEPT ![NextSession] = DropWriter(WavCreate(p))]
         /\ files' = [files EXCEPT ![p] = NextSession]
    /\ sess' = [sess EXCEPT ![NextSession] = "failed"]
    /\ ret' = Result("start", "SourceUnavailable", NoPath)
    /\ toggle' = ToggleReturns(by)
    /\ UNCHANGED <<recorder, system_buffer, mic_buffer, system_level, mic_level, conv,
                   sysCb, micCb, starting, mic_config,
                   now, last_levels_update, audio_levels, holder, thread,
                   overlay, system_recorder, mic_recorder>>

\* A start_recording that goes on without looking at the registered streams.
StartSystemUnchecked(by) ==
    /\ Unused # {}
    /\ \E p \in PathsNow :
         /\ writers' = [writers EXCEPT ![NextSession] = WavCreate(p)]
         /\ files' = [files EXCEPT ![p] = NextSession]
         /\ starting' = [by |-> by, w |-> NextSession, path |-> p]
    /\ sess' = [sess EXCEPT ![NextSession] = "starting"]
    /\ UNCHANGED <<recorder, system_buffer, mic_buffer, system_level, mic_level, conv,
                   sysCb, micCb, toggle, ret, mic_config,
                   now, last_levels_update, audio_levels, events, holder, thread,
                   overlay, system_recorder, mic_recorder>>

\* The writer is created and the system stream captures; the microphone is
\* set up next, with the lock still held.
StartSystem(by) ==
    /\ ~IsRecording
    /\ Unused # {}
    /\ \E p \in PathsNow :
         /\ writers' = [writers EXCEPT ![NextSession] = WavCreate(p)]
         /\ files' = [files EXCEPT ![p] = NextSession]
         /\ starting' = [by |-> by, w |-> NextSession, path |-> p]
    /\ sess' = [sess EXCEPT ![NextSession] = "starting"]
    /\ UNCHANGED <<recorder, system_buffer, mic_buffer, system_level, mic_level, conv,
                   sysCb, micCb, toggle, ret, mic_config,
                   now, last_levels_update, audio_levels, events, holder, thread,
                   overlay, system_recorder, mic_recorder>>

StartBegin(by) ==
    /\ LockFree
    /\ by \in Callers("start")
    /\ \/ StartRejected(by)
       \/ StartFailsEarly(by)
       \/ StartFailsSystem(by)
       \/ StartSystem(by)

\* No input device, no input config, build_input_stream or play fails: the
\* system stream is dropped; recorder is as it was.
StartFailsMic ==
    /\ ~LockFree
    /\ events < MaxEvents
    /\ events' = events + 1
    /\ sess' = [sess EXCEPT ![starting.w] = "failed"]
    /\ ret' = Result("start", "SourceUnavailable", NoPath)
    /\ toggle' = ToggleReturns(starting.by)
    /\ starting' = NoStart
    /\ UNCHANGED <<recorder, system_buffer, mic_buffer, system_level, mic_level, writers,
                   files, conv, sysCb, micCb, mic_config,
                   now, last_levels_update, audio_levels, holder, thread,
                   overlay, system_recorder, mic_recorder>>

\* A registration whose converter goes on from the counters of the session
\* before it, as if they were kept in the AppState.
StartRegistersCarryingCounters ==
    /\ ~LockFree
    /\ conv' = [conv EXCEPT ![starting.w] =
                  [channels |-> mic_config.channels, source_sr |-> mic_config.source_sr,
                   total_in |-> IF starting.w > 1 THEN conv[starting.w - 1].total_in ELSE 0,
                   total_out |-> IF starting.w > 1 THEN conv[starting.w - 1].total_out ELSE 0]]
    /\ recorder' = [system_stream |-> starting.w, mic_stream |-> starting.w,
                    file_path |-> starting.path, writer |-> starting.w]
    /\ sess' = [sess EXCEPT ![starting.w] = "live"]
    /\ ret' = Result("start", "Ok", starting.path)
    /\ toggle' = ToggleReturns(starting.by)
    /\ starting' = NoStart
    /\ update_overlay(TRUE)
    /\ UNCHANGED <<system_buffer, mic_buffer, system_level, mic_level, writers, files,
                   sysCb, micCb, mic_config,
                   now, last_levels_update, audio_levels, events, holder, thread,
                   system_recorder, mic_recorder>>

\* A registration that keeps the file_path of an earlier session.
StartRegistersKeepingPath ==
    /\ ~LockFree
    /\ conv' = [conv EXCEPT ![starting.w] =
                  [channels |-> mic_config.channels, source_sr |-> mic_config.source_sr,
                   total_in |-> 0, total_out |-> 0]]
    /\ recorder' = [system_stream |-> starting.w, mic_stream |-> starting.w,
                    file_path |-> IF recorder.file_path # NoPath THEN recorder.file_path
                                  ELSE starting.path,
                    writer |-> starting.w]
    /\ sess' = [sess EXCEPT ![starting.w] = "live"]
    /\ ret' = Result("start", "Ok", starting.path)
    /\ toggle' = ToggleReturns(starting.by)
    /\ starting' = NoStart
    /\ update_overlay(TRUE)
    /\ UNCHANGED <<system_buffer, mic_buffer, system_level, mic_level, writers, files,
                   sysCb, micCb, mic_config,
                   now, last_levels_update, audio_levels, events, holder, thread,
                   system_recorder, mic_recorder>>

\* The microphone stream plays; the session is registered.
StartRegisters ==
    /\ ~LockFree
    /\ conv' = [conv EXCEPT ![starting.w] =
                  [channels |-> mic_config.channels, source_sr |-> mic_config.source_sr,
                   total_in |-> 0, total_out |-> 0]]
    /\ recorder' = [system_stream |-> starting.w, mic_stream |-> starting.w,
                    file_path |-> starting.path, writer |-> starting.w]
    /\ sess' = [sess EXCEPT ![starting.w] = "live"]
    /\ ret' = Result("start", "Ok", starting.path)
    /\ toggle' = ToggleReturns(starting.by)
    /\ starting' = NoStart
    /\ update_overlay(TRUE)
    /\ UNCHANGED <<system_buffer, mic_buffer, system_level, mic_level, writers, files,
                   sysCb, micCb, mic_config,
                   now, last_levels_update, audio_levels, events, holder, thread,
                   system_recorder, mic_recorder>>

StartFinish == StartFailsMic \/ StartRegisters

\* After a failed Start the handler, its Mixer and the writer in it are
\* released once no callback of the dropped stream is running.
ReleaseHandler(w) ==
    /\ sess[w] = "failed"
    /\ sysCb[w].pc = "idle"
    /\ writers[w].st = "open"
    /\ writers' = [writers EXCEPT ![w] = DropWriter(@)]
    /\ UNCHANGED <<recorder, system_buffer, mic_buffer, system_level, mic_level, files,
                   sess, conv, sysCb, micCb, starting, toggle, ret, mic_config,
                   now, last_levels_update, audio_levels, events, holder, thread,
                   overlay, system_recorder, mic_recorder>>

\* ------------------------------------------------------------- stop_recording
\* The streams are taken and halted.
Halted(s) == [w \in Sessions |->
                IF w \in {recorder.system_stream, recorder.mic_stream} /\ s[w] = "live"
                THEN "ended" ELSE s[w]]

HasWriter == recorder.writer # NoSession /\ writers[recorder.writer].st = "open"

\* writer.finalize() fails: the ? returns before the buffers are cleared and,
\* in the overlay variant, before update_overlay(false).
StopFailsFinalize(by, ok) ==
    /\ HasWriter
    /\ ~FinalizeOk(writers[recorder.writer], ok)
    /\ writers' = [writers EXCEPT ![recorder.writer] = Finalize(@, ok)]
    /\ events' = events + (IF ok THEN 0 ELSE 1)
    /\ ret' = Result("stop", "IoError", NoPath)
    /\ toggle' = ToggleReturns(by)
    /\ UNCHANGED <<system_buffer, mic_buffer, system_level, mic_level, overlay>>

\* A Stop that takes the writer out of the recorder and lets go of it
\* without finalize.
StopCompletesUnfinalized(by, ok) ==
    /\ HasWriter => FinalizeOk(writers[recorder.writer], ok)
    /\ writers' = writers
    /\ system_buffer' = <<>>
    /\ mic_buffer' = <<>>
    /\ system_level' = 0
    /\ mic_level' = 0
    /\ ret' = IF recorder.file_path # NoPath
              THEN Result("stop", "Ok", recorder.file_path)
              ELSE Result("stop", "NotRecording", NoPath)
    /\ toggle' = ToggleReturns(by)
    /\ update_overlay(FALSE)
    /\ UNCHANGED events

\* Otherwise the buffers are cleared, the levels reset, and the result is the
\* path whenever file_path is set.  The overlay variant calls
\* update_overlay(false) after the clear, whatever the result.
StopCompletes(by, ok) ==
    /\ HasWriter => FinalizeOk(writers[recorder.writer], ok)
    /\ writers' = IF HasWriter
                  THEN [writers EXCEPT ![recorder.writer] = Finalize(@, ok)]
                  ELSE writers
    /\ system_buffer' = <<>>
    /\ mic_buffer' = <<>>
    /\ system_level' = 0
    /\ mic_level' = 0
    /\ ret' = IF recorder.file_path # NoPath
              THEN Result("stop", "Ok", recorder.file_path)
              ELSE Result("stop", "NotRecording", NoPath)
    /\ toggle' = ToggleReturns(by)
    /\ update_overlay(FALSE)
    /\ UNCHANGED events

\* The whole command is one step: it holds the controller's lock throughout,
\* and a callback that runs between its finalize and its clear finds no writer
\* and pushes what the clear removes, as one that ran before the step; a
\* callback that pushes after the clear is one that runs after the step.
StopRecording(by) ==
    /\ LockFree
    /\ by \in Callers("stop")
    /\ recorder' = [recorder EXCEPT !.system_stream = NoSession, !.mic_stream = NoSession,
                                    !.writer = NoSession]
    /\ sess' = Halted(sess)
    /\ \E ok \in {b \in BOOLEAN : b \/ events < MaxEvents} :
         StopFailsFinalize(by, ok) \/ StopCompletes(by, ok)
    /\ UNCHANGED <<files, conv, sysCb, micCb, starting, mic_config,
                   now, last_levels_update, audio_levels, holder, thread,
                   system_recorder, mic_recorder>>

\* ----------------------------------------------------------- toggle_recording
\* state.is_recording(): the lock is taken, read and released.
ToggleCheck(t) ==
    /\ LockFree
    /\ toggle[t] = "idle"
    /\ events < MaxEvents
    /\ events' = events + 1
    /\ toggle' = [toggle EXCEPT ![t] = IF IsRecording THEN "stop" ELSE "start"]
    /\ UNCHANGED <<recorder, system_buffer, mic_buffer, system_level, mic_level, writers,
                   files, sess, conv, sysCb, micCb, starting, ret, mic_config,
                   now, last_levels_update, audio_levels, holder, thread,
                   overlay, system_recorder, mic_recorder>>

\* ------------------------------------------------------------------ the clock
Tick ==
    /\ events < MaxEvents
    /\ events' = events + 1
    /\ now' = now + 1
    /\ UNCHANGED <<recorder, system_buffer, mic_buffer, system_level, mic_level, writers,
                   files, sess, conv, sysCb, micCb, starting, toggle, ret, mic_config,
                   last_levels_update, audio_levels, holder, thread,
                   overlay, system_recorder, mic_recorder>>

\* ----------------------------------------------------------------------- Next
Next ==
    \/ \E by \in {Direct} \cup Tasks : StartBegin(by)
    \/ StartFinish
    \/ \E w \in Sessions : ReleaseHandler(w)
    \/ \E by \in {Direct} \cup Tasks : StopRecording(by)
    \/ \E t \in Tasks : ToggleCheck(t)
    \/ \E w \in Sessions : SysBegin(w)
    \/ \E w \in Sessions : \E batch \in SysBatches : SysPush(w, batch)
    \/ \E w \in Sessions : SysMix(w)
    \/ \E w \in Sessions : MicBegin(w)
    \/ \E w \in Sessions : \E data \in MicBatches(conv[w].channels) : MicPush(w, data)
    \/ \E w \in Sessions : MicMix(w)
    \/ Tick

Spec == Init /\ [][Next]_vars

\* ------------------------------------------------------------- the controller
AnyCaller == {Direct} \cup Tasks
StartStep == \E by \in AnyCaller : StartBegin(by)
StopStep == \E by \in AnyCaller : StopRecording(by)

\* The sessions whose streams capture, and the open writers of the Start
\* attempts that did not fail.
Capturing == {w \in Sessions : sess[w] \in {"starting", "live"}}
OpenWriters == {w \in Sessions : sess[w] # "failed" /\ writers[w].st = "open"}

\* C1: a start_recording made while a session is registered returns
\* AlreadyRecording and leaves the registered streams, the writer, the path,
\* both buffers and every file as they were.
C1_StartWhileRecording ==
    [][(IsRecording /\ StartStep) =>
         /\ ret' = Result("start", "AlreadyRecording", NoPath)
         /\ UNCHANGED <<recorder, writers, files, system_buffer, mic_buffer, sess,
                        starting>>]_vars

\* A Start was rejected while samples were waiting in a buffer.
C1_Witness ==
    /\ IsRecording
    /\ ret = Result("start", "AlreadyRecording", NoPath)
    /\ system_buffer # <<>>

\* C2: a stop_recording made while no session is registered returns
\* NotRecording and changes nothing, after earlier sessions too.
C2_StopWhileIdle ==
    [][(~IsRecording /\ StopStep) =>
         /\ ret' = Result("stop", "NotRecording", NoPath)
         /\ UNCHANGED <<recorder, writers, files, system_buffer, mic_buffer,
                        system_level, mic_level, sess>>]_vars

Min(a, b) == IF a < b THEN a ELSE b
Quiet(w) == sysCb[w].pc = "idle" /\ micCb[w].pc = "idle"

\* The buffer entries that went into the samples written through writer w.
SysUsed(w) == {writers[w].data[i].s : i \in 1..Len(writers[w].data)}
MicUsed(w) == {writers[w].data[i].m : i \in 1..Len(writers[w].data)}

\* The file of writer w is still the one w created.
OwnsFile(w) == writers[w].st # "none" /\ files[writers[w].path] = w

\* C4: samples reach a writer only as whole mixed pairs, so every file holds
\* an even number of samples in every reachable state.
C4_EvenSamplesWritten ==
    \A w \in Sessions : Len(writers[w].data) % 2 = 0

\* C5: whenever a live session's callbacks have all returned, the pairs written
\* to its file are floor(min(system samples pushed, microphone samples
\* pushed) / 2) of that session, and no pushed sample is in two written samples.
C5_Pairing ==
    \A w \in Sessions :
        (sess[w] = "live" /\ Quiet(w)) =>
            /\ Len(writers[w].data) = 2 * (Min(sysCb[w].pushed, micCb[w].pushed) \div 2)
            /\ Cardinality(SysUsed(w)) = Len(writers[w].data)
            /\ Cardinality(MicUsed(w)) = Len(writers[w].data)

\* C6: the i-th sample written in a session is the mean of the i-th sample
\* that session pushed to the system buffer and the i-th it pushed to the
\* microphone buffer.
C6_IndexPaired ==
    \A w \in Sessions : \A i \in 1..Len(writers[w].data) :
        LET x == writers[w].data[i]
        IN  /\ x.s.w = w /\ x.s.i = i
            /\ x.m.w = w /\ x.m.i = i
            /\ 2 * x.v = x.s.v + x.m.v

\* C7: a successful Stop of a registered session writes every pair that is in
\* both buffers when the streams are halted, before it finalizes the file.
C7_FinalDrain ==
    [][(IsRecording /\ StopStep /\ ret'.val = "Ok") =>
         LET w == recorder.writer
         IN  Len(writers'[w].data) =
                 Len(writers[w].data) + 2 * Pairable(system_buffer, mic_buffer)]_vars

\* C8: finalize has been called exactly once on the writer of every session
\* that Stop ended, never on the writer of a session still capturing, and
\* never twice on any writer.
C8_FinalizedOnce ==
    \A w \in Sessions :
        /\ sess[w] = "ended" => writers[w].fin = 1
        /\ sess[w] \in {"starting", "live"} => writers[w].fin = 0
        /\ writers[w].fin <= 1

\* Two sessions were started and stopped, and no toggle is under way.
C8_Witness ==
    /\ sess[1] = "ended" /\ writers[1].fin = 1
    /\ sess[2] = "ended" /\ writers[2].fin = 1
    /\ events > 0
    /\ toggle["t1"] = "idle"

\* C9: what was written through a finalized writer never changes, and a
\* drain of its Mixer, begun before or after the Stop, leaves both buffers
\* and every writer as they are.
C9_NoWriteAfterFinalize ==
    [][\A w \in Sessions :
         writers[w].st = "finalized" =>
            /\ writers'[w].data = writers[w].data
            /\ (SysMix(w) \/ MicMix(w)) =>
                   UNCHANGED <<system_buffer, mic_buffer, writers>>]_vars

\* Both callbacks of an ended session pushed after the Stop and have run
\* their drains: a pair is waiting and was not written.
C9_Witness ==
    /\ sess[1] = "ended"
    /\ writers[1].st = "finalized"
    /\ Quiet(1)
    /\ sess[2] = "none"
    /\ Pairable(system_buffer, mic_buffer) > 0

Pushers(buf) == {buf[i].w : i \in 1..Len(buf)}
Sources(w) == {x.w : x \in SysUsed(w) \cup MicUsed(w)}

\* C11: a session begins with empty buffers, so whatever is in the buffers or
\* in the file of a capturing session was pushed by that session's callbacks.
C11_FreshBuffers ==
    \A w \in Sessions :
        sess[w] \in {"starting", "live"} =>
            /\ Pushers(system_buffer) \subseteq {w}
            /\ Pushers(mic_buffer) \subseteq {w}
            /\ Sources(w) \subseteq {w}

\* C12: a Start that succeeds begins in Idle, ends in Recording and returns
\* the path of the file it created; a Stop of that session that succeeds ends
\* in Idle and returns that same path.
C12_SamePath ==
    [][/\ (StartFinish /\ ret'.val = "Ok") =>
             /\ ~IsRecording
             /\ IsRecording'
             /\ ret'.op = "start"
             /\ ret'.path # NoPath
             /\ ret'.path = writers[recorder'.writer].path
       /\ (IsRecording /\ StopStep /\ ret'.val = "Ok") =>
             /\ ~IsRecording'
             /\ ret'.op = "stop"
             /\ ret'.path = writers[recorder.writer].path]_vars

\* The second session, whose file has another name than the first's, was
\* stopped and its path returned.
C12_Witness ==
    /\ writers[1].path = 1
    /\ writers[2].path = 2
    /\ sess[1] = "ended"
    /\ sess[2] = "ended"
    /\ ret = Result("stop", "Ok", 2)

\* ------------------------------------------------------- the rate converter
\* The input devices the converter is run with: decimation, pass-through,
\* the 44100 Hz case, a threefold repetition and a source of three channels.
ConvConfigs == {[channels |-> 1, source_sr |-> 96000],
                [channels |-> 2, source_sr |-> 48000],
                [channels |-> 1, source_sr |-> 44100],
                [channels |-> 2, source_sr |-> 44100],
                [channels |-> 1, source_sr |-> 16000],
                [channels |-> 3, source_sr |-> 32000]}

\* The state a successful first Start leaves, for each of these devices.
InitConv ==
    /\ mic_config \in ConvConfigs
    /\ recorder = [system_stream |-> 1, mic_stream |-> 1, file_path |-> 1, writer |-> 1]
    /\ system_buffer = <<>>
    /\ mic_buffer = <<>>
    /\ system_level = 0
    /\ mic_level = 0
    /\ writers = [w \in Sessions |-> IF w = 1 THEN WavCreate(1) ELSE NoWriter]
    /\ files = [p \in Paths |-> IF p = 1 THEN 1 ELSE NoSession]
    /\ sess = [w \in Sessions |-> IF w = 1 THEN "live" ELSE "none"]
    /\ conv = [w \in Sessions |->
                 IF w = 1 THEN [channels |-> mic_config.channels,
                                source_sr |-> mic_config.source_sr,
                                total_in |-> 0, total_out |-> 0]
                 ELSE NoConv]
    /\ sysCb = [w \in Sessions |-> IdleCb]
    /\ micCb = [w \in Sessions |-> IdleCb]
    /\ starting = NoStart
    /\ toggle = [t \in Tasks |-> "idle"]
    /\ ret = Result("start", "Ok", 1)
    /\ events = 0
    /\ now = 0
    /\ holder = [m \in Mutexes |-> Free]
    /\ thread = [t \in Threads |-> <<>>]
    /\ overlay = TRUE
    /\ system_recorder = NoSystemRecorder
    /\ mic_recorder = NoMicRecorder
    /\ last_levels_update = 0
    /\ audio_levels = NoLevels

\* The microphone callbacks of that session.
NextConv ==
    \/ MicBegin(1)
    \/ \E data \in MicBatches(conv[1].channels) : MicPush(1, data)
    \/ MicMix(1)

SpecConv == InitConv /\ [][NextConv]_vars

\* The step in which the microphone callback of session w converts its data.
Converts(w) == micCb[w].pc = "push" /\ micCb'[w].pc = "mix"

\* C13, with the rates as the code has them: a microphone callback counts
\* every source frame once, and emits output frames, two samples each, while
\* framesEmitted * sourceRate < framesConsumed * targetRate.
C13_EmitWhileBehind ==
    [][Converts(1) =>
         LET c == conv[1]
             d == conv'[1]
         IN  /\ \A data \in MicBatches(c.channels) :
                   MicPush(1, data) => d.total_in = c.total_in + Len(data)
             /\ d.total_out >= c.total_out
             /\ ~(d.total_out * c.source_sr < d.total_in * TargetRate)
             /\ d.total_out > c.total_out =>
                   (d.total_out - 1) * c.source_sr < d.total_in * TargetRate
             /\ Len(mic_buffer') = Len(mic_buffer) + 2 * (d.total_out - c.total_out)]_vars

\* One frame of a 16000 Hz source was repeated three times.
C13_Witness ==
    /\ conv[1].source_sr = 16000
    /\ conv[1].total_in = 1
    /\ conv[1].total_out = 3
    /\ Len(mic_buffer) = 6

\* C13 as stated: the converter emits while
\* framesEmitted * targetRate < framesConsumed * sourceRate.
C13_AsStated ==
    [][Converts(1) =>
         LET c == conv[1]
             d == conv'[1]
         IN  /\ ~(d.total_out * TargetRate < d.total_in * c.source_sr)
             /\ d.total_out > c.total_out =>
                   (d.total_out - 1) * TargetRate < d.total_in * c.source_sr]_vars

\* The converter of a session that begins, and what it has emitted after n
\* source frames delivered in callbacks of at most k frames.
Converter(config) ==
    [channels |-> config.channels, source_sr |-> config.source_sr,
     total_in |-> 0, total_out |-> 0, out |-> <<>>, level_sum |-> 0, level_count |-> 0]

\* The callbacks are fed in two halves; the condition on the first half's
\* count has it computed before the second half begins.
RECURSIVE FeedBatches(_, _, _)
FeedBatches(c, n, k) ==
    LET batches == (n + k - 1) \div k
        first == (batches \div 2) * k
        half == FeedBatches(c, first, k)
    IN  IF n = 0 THEN c
        ELSE IF batches = 1
             THEN ResampleData([c EXCEPT !.out = <<>>], [i \in 1..n |-> MicFrame(c.channels)])
             ELSE IF half.total_in >= 0 THEN FeedBatches(half, n - first, k) ELSE half

FramesOut(config, n, k) == FeedBatches(Converter(config), n, k).total_out

Mono96k == [channels |-> 1, source_sr |-> 96000]

\* C14: from a 96000 Hz source the converter has emitted ceil(N / 2) frames
\* after N source frames, however they were split into callbacks, and 500
\* after 1000.
C14_Halving ==
    /\ conv[1].source_sr = 96000 =>
          /\ conv[1].total_out = (conv[1].total_in + 1) \div 2
          /\ micCb[1].pushed = 2 * conv[1].total_out
    /\ \A k \in {1, 7, 32} : FramesOut(Mono96k, 1000, k) = 500

\* Five frames of a 96000 Hz source, in three callbacks, gave three.
C14_Witness ==
    /\ conv[1].source_sr = 96000
    /\ conv[1].total_in = 5
    /\ conv[1].total_out = 3
    /\ micCb[1].pc = "idle"

\* How far the frames emitted are from total_in * TargetRate / source_sr, in
\* units of 1 / source_sr of a frame.
Drift(c) == c.total_out * c.source_sr - c.total_in * TargetRate

Abs(x) == IF x < 0 THEN -x ELSE x

Mono44k == [channels |-> 1, source_sr |-> 44100]

\* C15: after every source frame the frames emitted are within one frame of
\* N * targetRate / sourceRate, for each source rate, and still so after 1000
\* frames of a 44100 Hz source.
C15_DriftBound ==
    /\ Abs(Drift(conv[1])) <= conv[1].source_sr
    /\ \A k \in {1, 32} : Abs(Drift(FeedBatches(Converter(Mono44k), 1000, k))) <= 44100

\* Six frames of a 44100 Hz source gave seven.
C15_Witness ==
    /\ conv[1].source_sr = 44100
    /\ conv[1].total_in = 6
    /\ conv[1].total_out = 7

\* ------------------------------------------------------------------ the levels
\* A first session is live one tick after launch, and its system callbacks
\* have pushed two frames that wait for the microphone's.
Waiting == Tag(<<One, One, -One, -One>>, 1, 0)

InitLevels ==
    /\ mic_config \in MicConfigs
    /\ recorder = [system_stream |-> 1, mic_stream |-> 1, file_path |-> 1, writer |-> 1]
    /\ system_buffer = Waiting
    /\ mic_buffer = <<>>
    /\ system_level = Rms(SumSq(Waiting), Len(Waiting))
    /\ mic_level = 0
    /\ writers = [w \in Sessions |-> IF w = 1 THEN WavCreate(1) ELSE NoWriter]
    /\ files = [p \in Paths |-> IF p = 1 THEN 1 ELSE NoSession]
    /\ sess = [w \in Sessions |-> IF w = 1 THEN "live" ELSE "none"]
    /\ conv = [w \in Sessions |->
                 IF w = 1 THEN [channels |-> mic_config.channels,
                                source_sr |-> mic_config.source_sr,
                                total_in |-> 0, total_out |-> 0]
                 ELSE NoConv]
    /\ sysCb = [w \in Sessions |-> IF w = 1 THEN [pc |-> "idle", pushed |-> Len(Waiting)]
                                   ELSE IdleCb]
    /\ micCb = [w \in Sessions |-> IdleCb]
    /\ starting = NoStart
    /\ toggle = [t \in Tasks |-> "idle"]
    /\ ret = Result("start", "Ok", 1)
    /\ events = 0
    /\ now = 1
    /\ holder = [m \in Mutexes |-> Free]
    /\ thread = [t \in Threads |-> <<>>]
    /\ overlay = TRUE
    /\ system_recorder = NoSystemRecorder
    /\ mic_recorder = NoMicRecorder
    /\ last_levels_update = 0
    /\ audio_levels = NoLevels

SpecLevels == InitLevels /\ [][Next]_vars

\* An audio-levels event is emitted in this step.
Emits == audio_levels'.count # audio_levels.count

\* C16: an audio-levels event is emitted at least 50 ms after the one before
\* it, whichever callback and whichever session's Mixer emits it.
C16_Throttled ==
    [][(Emits /\ audio_levels.count > 0) =>
         (audio_levels'.at - audio_levels.at) * TickMs >= PeriodMs]_vars

\* A second event was emitted, one tick after the first.
C16_Witness ==
    /\ audio_levels.count = 2
    /\ audio_levels.at = 2
    /\ last_levels_update = 2

\* A drain of session w's Mixer, from either callback.
Drains(w) == SysMix(w) \/ MicMix(w)

\* C17: a drain that mixes no pair neither emits an audio-levels event nor
\* resets the throttle timer, however long ago the last emission was.
C17_NoPairNoEvent ==
    [][\A w \in Sessions :
          (Drains(w) /\ (writers[w].st # "open" \/ Pairable(system_buffer, mic_buffer) = 0)) =>
              /\ ~Emits
              /\ last_levels_update' = last_levels_update]_vars

\* C17: no audio-levels event is emitted while the controller is Idle.
C17_QuietWhileIdle == [][Emits => (IsRecording \/ ~LockFree)]_vars

\* ---------------------------------------------------------------- the toggle
\* What toggle_recording returns after the command it called has returned:
\* Ok(true) after a Start, Ok(false) after a Stop, or the command's error.
ToggleResult ==
    IF ret.val = "Ok" THEN (IF ret.op = "start" THEN "true" ELSE "false") ELSE ret.val

\* The toggle of task t returns in this step.
Returns(t) == toggle[t] # "idle" /\ toggle'[t] = "idle"

\* C18: a toggle returns true only when its Start created a session and false
\* only when its Stop ended a live one; its Stop in Idle fails with
\* NotRecording and its Start in Recording with AlreadyRecording.
C18_ToggleResult ==
    [][\A t \in Tasks :
          Returns(t) =>
              /\ ToggleResult' = "true" =>
                    toggle[t] = "start" /\ ~IsRecording /\ IsRecording'
              /\ ToggleResult' = "false" =>
                    toggle[t] = "stop" /\ IsRecording /\ ~IsRecording'
              /\ (toggle[t] = "stop" /\ ~IsRecording) => ToggleResult' = "NotRecording"
              /\ (toggle[t] = "start" /\ IsRecording) => ToggleResult' = "AlreadyRecording"]_vars

\* The commands are invoked by toggles only: the global shortcut spawns one
\* toggle_recording per press.
NextToggle ==
    \/ \E by \in Tasks : StartBegin(by)
    \/ StartFinish
    \/ \E w \in Sessions : ReleaseHandler(w)
    \/ \E by \in Tasks : StopRecording(by)
    \/ \E t \in Tasks : ToggleCheck(t)
    \/ \E w \in Sessions : SysBegin(w)
    \/ \E w \in Sessions : \E batch \in SysBatches : SysPush(w, batch)
    \/ \E w \in Sessions : SysMix(w)
    \/ \E w \in Sessions : MicBegin(w)
    \/ \E w \in Sessions : \E data \in MicBatches(conv[w].channels) : MicPush(w, data)
    \/ \E w \in Sessions : MicMix(w)
    \/ Tick

SpecToggle == Init /\ [][NextToggle]_vars

\* C20: a toggle fails with AlreadyRecording only when it has read Idle and
\* another Start has registered a session before its own Start runs; the
\* controller stays Recording.  A toggle whose Start runs in the state it has
\* read, as in every sequential order, never fails so.
C20_CheckThenAct ==
    [][\A t \in Tasks :
          (Returns(t) /\ ret'.val = "AlreadyRecording") =>
              /\ toggle[t] = "start"
              /\ IsRecording
              /\ recorder' = recorder]_vars

\* Two toggles have read Idle; the Start of one has registered the session and
\* the Start of the other has failed with AlreadyRecording.
C20_Witness ==
    /\ \A t \in Tasks : toggle[t] = "idle"
    /\ IsRecording
    /\ sess = <<"live", "none">>
    /\ ret = Result("start", "AlreadyRecording", NoPath)
    /\ events = 2

\* -------------------------------------------------------------- lock protocol
\* What a thread does to the mutexes, in program order.  A guard bound with
\* let lives to the end of its block; a temporary guard is dropped at the end
\* of its statement.
Lock(m) == [op |-> "lock", m |-> m]
Unlock(m) == [op |-> "unlock", m |-> m]
Briefly(m) == <<Lock(m), Unlock(m)>>

\* The emission block of mix_available: skipped when nothing was mixed; else
\* the timestamp is locked and, when 50 ms have elapsed, the two levels are read.
EmissionLocks ==
    { <<>>,
      Briefly("last_levels_update"),
      <<Lock("last_levels_update")>> \o Briefly("mic_level") \o Briefly("system_level")
          \o <<Unlock("last_levels_update")>> }

MixLocks ==
    { <<Lock("system_buffer"), Lock("mic_buffer"), Lock("writer")>> \o e
          \o <<Unlock("writer"), Unlock("mic_buffer"), Unlock("system_buffer")>> :
      e \in EmissionLocks }

SystemLocks ==
    { Briefly("system_level") \o Briefly("system_buffer") \o mix : mix \in MixLocks }

MicLocks ==
    { <<Lock("mic_buffer")>> \o level \o <<Unlock("mic_buffer")>> \o mix :
      level \in {<<>>, Briefly("mic_level")}, mix \in MixLocks }

StartLocks == { Briefly("recorder") }

\* The buffers and levels cleared by a Stop that got past finalize.
ClearLocks ==
    Briefly("system_buffer") \o Briefly("mic_buffer")
        \o Briefly("system_level") \o Briefly("mic_level")

\* A Stop whose writer guard lives to the end of the function.
StopLocksHoldingWriter ==
    { <<Lock("recorder"), Lock("writer")>> \o ClearLocks
          \o <<Unlock("writer"), Unlock("recorder")>> }

\* stop_recording: no writer registered, finalize fails, or finalize succeeds.
StopLocks ==
    { <<Lock("recorder")>> \o ClearLocks \o <<Unlock("recorder")>>,
      <<Lock("recorder")>> \o Briefly("writer") \o <<Unlock("recorder")>>,
      <<Lock("recorder")>> \o Briefly("writer") \o ClearLocks \o <<Unlock("recorder")>> }

Programs(t) ==
    CASE t = "system" -> SystemLocks
      [] t = "mic" -> MicLocks
      [] t = "start" -> StartLocks
      [] t = "stop" -> StopLocks

\* The callback or command of thread t is invoked.
Enter(t) ==
    /\ thread[t] = <<>>
    /\ \E p \in Programs(t) : thread' = [thread EXCEPT ![t] = p]
    /\ UNCHANGED <<state, holder>>

\* lock() returns once the mutex is free.
Acquire(t) ==
    /\ thread[t] # <<>>
    /\ Head(thread[t]).op = "lock"
    /\ holder[Head(thread[t]).m] = Free
    /\ holder' = [holder EXCEPT ![Head(thread[t]).m] = t]
    /\ thread' = [thread EXCEPT ![t] = Tail(@)]
    /\ UNCHANGED state

\* A guard is dropped.
Release(t) ==
    /\ thread[t] # <<>>
    /\ Head(thread[t]).op = "unlock"
    /\ holder' = [holder EXCEPT ![Head(thread[t]).m] = Free]
    /\ thread' = [thread EXCEPT ![t] = Tail(@)]
    /\ UNCHANGED state

NextLocks ==
    \/ \E t \in Threads : Enter(t)
    \/ \E t \in Threads : Acquire(t)
    \/ \E t \in Threads : Release(t)

SpecLocks == Init /\ [][NextLocks]_vars

\* parking_lot hands a contended mutex over to a waiting thread (eventual
\* fairness), and a running thread reaches the end of its guards' blocks.
FairLocks ==
    /\ SpecLocks
    /\ \A t \in Threads : SF_vars(Acquire(t)) /\ WF_vars(Release(t))

\* The order of the claim: system buffer, microphone buffer, writer, level
\* timestamp, level values; the controller's lock comes before them all.
Rank(m) ==
    CASE m = "recorder" -> 0
      [] m = "system_buffer" -> 1
      [] m = "mic_buffer" -> 2
      [] m = "writer" -> 3
      [] m = "last_levels_update" -> 4
      [] m \in {"mic_level", "system_level"} -> 5

Held(t) == {m \in Mutexes : holder[m] = t}
Waits(t) == thread[t] # <<>> /\ Head(thread[t]).op = "lock"
Wanted(t) == Head(thread[t]).m

\* A set of threads each waiting for a mutex another of them holds.
Deadlocked(S) == S # {} /\ \A t \in S : Waits(t) /\ holder[Wanted(t)] \in S

\* C19: a thread waiting for a mutex holds only mutexes earlier in the order,
\* and no set of threads waits in a circle.
C19_LockOrder ==
    /\ \A t \in Threads : Waits(t) => \A m \in Held(t) : Rank(m) < Rank(Wanted(t))
    /\ \A S \in SUBSET Threads : ~Deadlocked(S)

\* The system callback holds the three locks of the drain and the timestamp
\* while Stop, holding the controller's lock, waits for the system buffer and
\* the microphone callback for its buffer.
C19_Witness ==
    /\ Held("system") = {"system_buffer", "mic_buffer", "writer", "last_levels_update"}
    /\ Held("stop") = {"recorder"} /\ Waits("stop") /\ Wanted("stop") = "system_buffer"
    /\ Held("mic") = {} /\ Waits("mic") /\ Wanted("mic") = "mic_buffer"
    /\ Waits("start") /\ Wanted("start") = "recorder"

\* C19: under fair lock scheduling every callback and command completes.
C19_Completes == \A t \in Threads : (thread[t] # <<>>) ~> (thread[t] = <<>>)

\* C19: the lock order is kept, no threads wait in a circle, and under fair
\* lock scheduling every callback and every command completes.
C19_DeadlockFree == []C19_LockOrder /\ C19_Completes

\* ------------------------------------------------------------------ the drain
\* C21: a drain that finds its writer leaves fewer than two samples in one of
\* the buffers, and a drain that finds no pair, by either callback, pops
\* nothing, writes nothing and emits nothing.
C21_Idempotent ==
    [][\A w \in Sessions :
          Drains(w) =>
              /\ writers[w].st = "open" => Pairable(system_buffer', mic_buffer') = 0
              /\ Pairable(system_buffer, mic_buffer) = 0 =>
                    /\ UNCHANGED <<system_buffer, mic_buffer, writers>>
                    /\ ~Emits
                    /\ last_levels_update' = last_levels_update]_vars

\* The system callback's drain has mixed all the microphone pushed; the
\* microphone callback, which pushed before it, is about to drain again.
C21_Witness ==
    /\ sess = <<"live", "none">>
    /\ sysCb[1] = [pc |-> "idle", pushed |-> 4]
    /\ micCb[1] = [pc |-> "mix", pushed |-> 2]
    /\ Len(writers[1].data) = 2
    /\ Len(system_buffer) = 2
    /\ mic_buffer = <<>>

\* The sum over the first k pairs of the two buffers of the mean square of
\* the two mixed samples of the pair.
RECURSIVE BatchSquares(_, _, _)
BatchSquares(sys, mic, k) ==
    IF k = 0 THEN 0
    ELSE LET l == (sys[1].v + mic[1].v) \div 2
             r == (sys[2].v + mic[2].v) \div 2
         IN  (l * l + r * r) \div 2 + BatchSquares(Tail(Tail(sys)), Tail(Tail(mic)), k - 1)

\* The root mean square of the batch a drain is about to mix.
BatchLevel ==
    LET k == Pairable(system_buffer, mic_buffer)
    IN  ISqrt(BatchSquares(system_buffer, mic_buffer, k) \div k)

\* C22: a drain that finds its writer, mixes a pair and finds the throttle
\* timer 50 ms old or older emits one audio-levels event, with the level of
\* the batch and the levels last stored by the callbacks, and sets the timer
\* to the current instant.
C22_Emission ==
    [][\A w \in Sessions :
          (/\ Drains(w)
           /\ writers[w].st = "open"
           /\ Pairable(system_buffer, mic_buffer) > 0
           /\ Elapsed(last_levels_update) >= PeriodMs) =>
              /\ audio_levels' = [at |-> now,
                                  mic_level |-> mic_level,
                                  system_level |-> system_level,
                                  mixed_level |-> BatchLevel,
                                  count |-> audio_levels.count + 1]
              /\ last_levels_update' = now]_vars

\* A second event, whose mixed level is below the levels stored by the
\* callbacks: the samples of the batch cancelled in part.
C22_Witness ==
    /\ audio_levels.count = 2
    /\ audio_levels.at = 2
    /\ audio_levels.mixed_level = 1
    /\ audio_levels.mic_level = One
    /\ audio_levels.system_level = One
    /\ last_levels_update = 2

\* ---------------------------------------------------------- the rate converter
\* C23: the converter of a session that becomes live has both counters at
\* zero; a microphone callback adds one to total_in per source frame; no
\* step makes a counter of any session smaller.
C23_Counters ==
    [][\A w \in Sessions :
          /\ (sess[w] # "live" /\ sess'[w] = "live") =>
                conv'[w].total_in = 0 /\ conv'[w].total_out = 0
          /\ \A data \in MicBatches(conv[w].channels) :
                MicPush(w, data) => conv'[w].total_in = conv[w].total_in + Len(data)
          /\ conv'[w].total_in >= conv[w].total_in
          /\ conv'[w].total_out >= conv[w].total_out]_vars

\* The second session has converted one frame after the first converted two.
C23_Witness ==
    /\ sess = <<"ended", "live">>
    /\ conv[1].total_in = 2
    /\ conv[2].total_in = 1
    /\ conv[2].total_out = 1

\* A source of more than two channels, at a rate that has each frame emitted
\* once or twice.
Surround32k == [channels |-> 3, source_sr |-> 32000]

\* C24: the microphone buffer holds whole stereo frames: its length is even,
\* every odd place holds channel 0 of a source frame, pushed as an
\* odd-numbered sample, and the place after it holds the same sample of a
\* 1-channel source, or channel 1 of the same frame.
C24_StereoFrames ==
    /\ Len(mic_buffer) % 2 = 0
    /\ \A j \in 1..Len(mic_buffer) :
          LET x == mic_buffer[j]
              frame == MicFrame(conv[x.w].channels)
          IN  /\ x.i % 2 = j % 2
              /\ x.v = IF j % 2 = 1 \/ conv[x.w].channels = 1 THEN frame[1] ELSE frame[2]
    /\ ResampleData(Converter(Surround32k), <<MicFrame(3), MicFrame(3)>>).out
           = <<One, -One, One, -One, One, -One>>

\* Two frames of a stereo source wait in the microphone buffer.
C24_Witness ==
    /\ conv[1].channels = 2
    /\ sess[1] = "live"
    /\ Len(mic_buffer) = 4
    /\ mic_buffer[1].v = One
    /\ mic_buffer[2].v = -One

\* --------------------------------------------------------- failed write_sample
\* C25: whatever write_sample calls failed, every file holds whole stereo
\* frames, and its odd places hold left samples, mixed from channel 0 of the
\* microphone, and its even places right ones.
C25_Aligned ==
    \A w \in Sessions :
        /\ Len(writers[w].data) % 2 = 0
        /\ \A j \in 1..Len(writers[w].data) : writers[w].data[j].m.i % 2 = j % 2

\* ------------------------------------------------------------- a failed Start
\* start_recording returns an error other than AlreadyRecording in this step.
StartFails ==
    \/ \E by \in AnyCaller : LockFree /\ by \in Callers("start") /\ StartFailsEarly(by)
    \/ \E by \in AnyCaller : LockFree /\ by \in Callers("start") /\ StartFailsSystem(by)
    \/ StartFailsMic

\* The paths whose file was last created by a Start that failed, after a
\* session whose Stop succeeded had finalized a file there.
Recreated ==
    {p \in Paths :
        /\ files[p] # NoSession
        /\ sess[files[p]] = "failed"
        /\ \E w \in Sessions : /\ sess[w] = "ended"
                               /\ writers[w].path = p
                               /\ writers[w].declared # -1}

\* C26: when a Start has failed the controller is Idle with no stream and no
\* writer registered, no stream captures, and no file finalized by an earlier
\* session has been created anew.
C26_FailedStartNoEffect ==
    [][StartFails =>
         /\ ~IsRecording'
         /\ recorder'.writer = NoSession
         /\ Capturing' = {}
         /\ Recreated' = {}]_vars

\* ------------------------------------------------------- system-audio-recorder
\* The recorder that writes the system audio alone: its commands hold the
\* Recorder's lock from the first line to the return.
SystemReturns(op, val) == [op |-> op, val |-> val]

SystemUnused == {w \in Sessions : system_recorder.sess[w] = "none"}
SystemNext == CHOOSE w \in SystemUnused : \A x \in SystemUnused : w <= x

\* The one file name, system_audio.wav.
SystemPath == 1

SystemUntouched == UNCHANGED <<recorder, system_buffer, mic_buffer, system_level, mic_level,
                               writers, files, sess, conv, sysCb, micCb, starting, toggle, ret,
                               mic_config, now, last_levels_update, audio_levels, events,
                               holder, thread, overlay, mic_recorder>>

\* recorder.stream.is_some(): Err("Already recording").
SystemStartRejected ==
    /\ system_recorder.stream # NoSession
    /\ system_recorder' =
          [system_recorder EXCEPT !.ret = SystemReturns("start", "AlreadyRecording")]
    /\ SystemUntouched

\* The shareable content, the display, create_dir_all or WavWriter::create
\* fails: no writer exists.
SystemStartFailsEarly ==
    /\ system_recorder.stream = NoSession
    /\ system_recorder.events < MaxEvents
    /\ system_recorder' =
          [system_recorder EXCEPT !.ret = SystemReturns("start", "IoError"),
                                  !.events = @ + 1]
    /\ SystemUntouched

\* start_capture fails: the writer just created is dropped with the handler.
SystemStartFailsCapture ==
    /\ system_recorder.stream = NoSession
    /\ system_recorder.events < MaxEvents
    /\ SystemUnused # {}
    /\ system_recorder' =
          [system_recorder EXCEPT !.writers[SystemNext] = DropWriter(WavCreate(SystemPath)),
                                  !.sess[SystemNext] = "failed",
                                  !.ret = SystemReturns("start", "SourceUnavailable"),
                                  !.events = @ + 1]
    /\ SystemUntouched

\* The stream captures; stream, file_path and writer are registered. A writer
\* left registered by an earlier Stop is replaced.
SystemStartRegisters ==
    /\ system_recorder.stream = NoSession
    /\ SystemUnused # {}
    /\ system_recorder' =
          [system_recorder EXCEPT !.writers[SystemNext] = WavCreate(SystemPath),
                                  !.sess[SystemNext] = "live",
                                  !.stream = SystemNext,
                                  !.file_path = SystemPath,
                                  !.writer = SystemNext,
                                  !.ret = SystemReturns("start", "Ok")]
    /\ SystemUntouched

SystemStart ==
    \/ SystemStartRejected
    \/ SystemStartFailsEarly
    \/ SystemStartFailsCapture
    \/ SystemStartRegisters

\* did_output_sample_buffer is invoked by a stream that captures. A stream
\* whose stop_capture failed may go on capturing.
SystemCallback(w) ==
    /\ system_recorder.sess[w] \in {"live", "orphan"}
    /\ system_recorder.writers[w].st # "dropped"
    /\ system_recorder.cb[w] = "idle"
    /\ system_recorder.events < MaxEvents
    /\ system_recorder' = [system_recorder EXCEPT !.cb[w] = "write", !.events = @ + 1]
    /\ SystemUntouched

RECURSIVE WriteAll(_, _, _)
WriteAll(w, samples, oks) ==
    IF samples = <<>> THEN w
    ELSE WriteAll(WriteSample(w, Head(samples), Head(oks)), Tail(samples), Tail(oks))

\* Under the writer's lock: the samples are written if the writer is there.
SystemWrite(w, batch) ==
    /\ system_recorder.cb[w] = "write"
    /\ \E oks \in [1..Len(batch) -> BOOLEAN] :
          LET failed == Cardinality({i \in 1..Len(batch) : ~oks[i]})
              here == system_recorder.writers[w].st = "open"
          IN  /\ here => system_recorder.events + failed <= MaxEvents
              /\ ~here => failed = 0
              /\ system_recorder' =
                    [system_recorder EXCEPT
                        !.cb[w] = "idle",
                        !.writers[w] = IF here THEN WriteAll(@, batch, oks) ELSE @,
                        !.events = @ + failed]
    /\ SystemUntouched

\* The handler of a stream that was dropped is released with its writer, once
\* no callback runs and the Recorder does not hold the writer either.
SystemRelease(w) ==
    /\ system_recorder.sess[w] = "orphan"
    /\ system_recorder.cb[w] = "idle"
    /\ system_recorder.writer # w
    /\ system_recorder.writers[w].st = "open"
    /\ system_recorder' = [system_recorder EXCEPT !.writers[w] = DropWriter(@)]
    /\ SystemUntouched

\* No stream: Err("Not recording").
SystemStopNotRecording ==
    /\ system_recorder.stream = NoSession
    /\ system_recorder' =
          [system_recorder EXCEPT !.ret = SystemReturns("stop", "NotRecording")]
    /\ SystemUntouched

\* stream.take(), then stop_capture fails and ? returns: the stream is
\* dropped, the writer stays where it was.
SystemStopFailsCapture ==
    /\ system_recorder.stream # NoSession
    /\ system_recorder.events < MaxEvents
    /\ system_recorder' =
          [system_recorder EXCEPT !.stream = NoSession,
                                  !.sess[system_recorder.stream] = "orphan",
                                  !.ret = SystemReturns("stop", "StopCaptureError"),
                                  !.events = @ + 1]
    /\ SystemUntouched

\* stop_capture succeeds; the writer is taken out of the Recorder and of its
\* Option and finalized, which may fail.
SystemStopFinalizes ==
    /\ system_recorder.stream # NoSession
    /\ \E ok \in BOOLEAN :
          LET v == system_recorder.writer
          IN  /\ ~ok => system_recorder.events < MaxEvents
              /\ system_recorder' =
                    [system_recorder EXCEPT
                        !.stream = NoSession,
                        !.sess[system_recorder.stream] = "ended",
                        !.writer = NoSession,
                        !.writers[v] = Finalize(@, ok),
                        !.ret = SystemReturns("stop",
                                    IF FinalizeOk(system_recorder.writers[v], ok)
                                    THEN "Ok" ELSE "IoError"),
                        !.events = IF ok THEN @ ELSE @ + 1]
    /\ SystemUntouched

SystemStop ==
    \/ SystemStopNotRecording
    \/ SystemStopFailsCapture
    \/ SystemStopFinalizes

NextSystem ==
    \/ SystemStart
    \/ SystemStop
    \/ \E w \in Sessions : SystemCallback(w)
    \/ \E w \in Sessions : \E batch \in SysBatches : SystemWrite(w, batch)
    \/ \E w \in Sessions : SystemRelease(w)

SpecSystem == Init /\ [][NextSystem]_vars

\* C27: the controller of the system-audio recorder is never Idle with a
\* writer still registered, and a Stop that takes it out of Recording leaves
\* the session's writer finalized.
C27_StopUnregisters ==
    /\ system_recorder.stream = NoSession => system_recorder.writer = NoSession
    /\ \A w \in Sessions :
          system_recorder.sess[w] \in {"ended", "orphan"} =>
              system_recorder.writers[w].st = "finalized"

\* ---------------------------------------------------------------- mic-recorder
\* The recorder that writes the microphone alone. start_recording takes the
\* lock of AppState.stream only to store the stream it has built and started.
MicOnlyReturns(op, val) == [op |-> op, val |-> val]

MicOnlyUnused == {w \in Sessions : mic_recorder.streams[w] = "none"}
MicOnlyNext == CHOOSE w \in MicOnlyUnused : \A x \in MicOnlyUnused : w <= x

\* The one file name, recorded_audio.wav.
MicOnlyPath == 1

MicOnlyUntouched == UNCHANGED <<recorder, system_buffer, mic_buffer, system_level, mic_level,
                                writers, files, sess, conv, sysCb, micCb, starting, toggle, ret,
                                mic_config, now, last_levels_update, audio_levels, events,
                                holder, thread, overlay, system_recorder>>

\* No input device, no default config, or WavWriter::create fails.
MicOnlyStartFailsEarly ==
    /\ mic_recorder.building = NoSession
    /\ mic_recorder.events < MaxEvents
    /\ mic_recorder' = [mic_recorder EXCEPT !.ret = MicOnlyReturns("start", "IoError"),
                                            !.events = @ + 1]
    /\ MicOnlyUntouched

\* The writer is created; build_input_stream or play fails and the closure
\* is dropped with the writer.
MicOnlyStartFailsStream ==
    /\ mic_recorder.building = NoSession
    /\ mic_recorder.events < MaxEvents
    /\ MicOnlyUnused # {}
    /\ mic_recorder' =
          [mic_recorder EXCEPT !.writers[MicOnlyNext] = DropWriter(WavCreate(MicOnlyPath)),
                               !.streams[MicOnlyNext] = "dropped",
                               !.ret = MicOnlyReturns("start", "SourceUnavailable"),
                               !.events = @ + 1]
    /\ MicOnlyUntouched

\* The writer is created, the stream built and started.
MicOnlyStartPlays ==
    /\ mic_recorder.building = NoSession
    /\ MicOnlyUnused # {}
    /\ mic_recorder' =
          [mic_recorder EXCEPT !.writers[MicOnlyNext] = WavCreate(MicOnlyPath),
                               !.streams[MicOnlyNext] = "playing",
                               !.building = MicOnlyNext]
    /\ MicOnlyUntouched

\* *state_stream = Some(stream): the stream that was there is dropped, and
\* the writer in its closure with it; the path is stored.
MicOnlyStartRegisters ==
    /\ mic_recorder.building # NoSession
    /\ LET old == mic_recorder.stream
           new == mic_recorder.building
       IN  mic_recorder' =
              [mic_recorder EXCEPT
                  !.streams = [w \in Sessions |-> IF w = old THEN "dropped" ELSE @[w]],
                  !.writers = [w \in Sessions |-> IF w = old THEN DropWriter(@[w]) ELSE @[w]],
                  !.stream = new,
                  !.recording_path = MicOnlyPath,
                  !.building = NoSession,
                  !.ret = MicOnlyReturns("start", "Ok")]
    /\ MicOnlyUntouched

\* The input callback of a stream that plays: every sample is written.
MicOnlyCallback(w, batch) ==
    /\ mic_recorder.streams[w] = "playing"
    /\ mic_recorder.writers[w].st = "open"
    /\ mic_recorder.events < MaxEvents
    /\ \E oks \in [1..Len(batch) -> BOOLEAN] :
          LET failed == Cardinality({i \in 1..Len(batch) : ~oks[i]})
          IN  /\ mic_recorder.events + 1 + failed <= MaxEvents
              /\ mic_recorder' =
                    [mic_recorder EXCEPT !.writers[w] = WriteAll(@, batch, oks),
                                         !.events = @ + 1 + failed]
    /\ MicOnlyUntouched

\* stop_recording with a stream stored: the stream is dropped, and the
\* writer in its closure with it; the stored path is returned.
MicOnlyStopDrops ==
    /\ mic_recorder.building = NoSession
    /\ mic_recorder.stream # NoSession
    /\ LET old == mic_recorder.stream
       IN  mic_recorder' =
              [mic_recorder EXCEPT !.streams[old] = "dropped",
                                   !.writers[old] = DropWriter(@),
                                   !.stream = NoSession,
                                   !.ret = MicOnlyReturns("stop", "Ok")]
    /\ MicOnlyUntouched

\* No stream stored: Err("Not recording").
MicOnlyStopNotRecording ==
    /\ mic_recorder.building = NoSession
    /\ mic_recorder.stream = NoSession
    /\ mic_recorder' = [mic_recorder EXCEPT !.ret = MicOnlyReturns("stop", "NotRecording")]
    /\ MicOnlyUntouched

NextMicOnly ==
    \/ MicOnlyStartFailsEarly
    \/ MicOnlyStartFailsStream
    \/ MicOnlyStartPlays
    \/ MicOnlyStartRegisters
    \/ \E w \in Sessions : \E batch \in SysBatches : MicOnlyCallback(w, batch)
    \/ MicOnlyStopDrops
    \/ MicOnlyStopNotRecording

SpecMicOnly == Init /\ [][NextMicOnly]_vars

\* C28: the microphone recorder never has two streams capturing nor two open
\* writers on recorded_audio.wav.
C28_OneStream ==
    /\ Cardinality({w \in Sessions : mic_recorder.streams[w] = "playing"}) <= 1
    /\ Cardinality({w \in Sessions : /\ mic_recorder.writers[w].st = "open"
                                     /\ mic_recorder.writers[w].path = MicOnlyPath}) <= 1

\* --------------------------------------------------------------- the overlay
\* C29: whenever no command runs, the last recording-status emitted, which is
\* also whether the overlay is shown, is the controller's recording state.
C29_OverlayFollows == LockFree => (overlay = IsRecording)

====
